---- MODULE Spec2Model ----
(***************************************************************************)
(* Model of package double (src/double/double.go): Dekker double-float     *)
(* arithmetic over Go float64.                                             *)
(*                                                                         *)
(* float64 is modelled bit-exactly (IEEE-754 binary64, round to nearest,   *)
(* ties to even, overflow to infinity, gradual underflow, signed zero,     *)
(* NaN).  A finite float is sign * m * 2^e with m an arbitrary-precision   *)
(* natural number kept as little-endian limbs, because a 53-bit            *)
(* significand does not fit the integers of TLC.                            *)
(***************************************************************************)
EXTENDS Integers, Sequences, FiniteSets, TLC

(***************************************************************************)
(* Arbitrary-precision naturals: little-endian sequences of limbs,         *)
(* no leading (most significant) zero limb, <<>> is zero.                  *)
(***************************************************************************)
LimbBits == 15
Base == 2^LimbBits

BNorm(a) ==
    LET nz == {i \in 1..Len(a) : a[i] # 0}
    IN  IF nz = {} THEN <<>>
        ELSE SubSeq(a, 1, CHOOSE i \in nz : \A j \in nz : j <= i)

MaxOf(i, j) == IF i > j THEN i ELSE j
MinOf(i, j) == IF i < j THEN i ELSE j

\* limb i of a, 0 beyond its length
Limb(a, i) == IF i <= Len(a) THEN a[i] ELSE 0

\* a + b: the carry into limb i comes from a lower limb j that overflows,
\* through limbs that are all Base - 1
BAdd(a, b) ==
    LET n == MaxOf(Len(a), Len(b)) + 1
        S(i) == Limb(a, i) + Limb(b, i)
        C(i) == \E j \in 1..(i - 1) :
                    S(j) >= Base /\ \A k \in (j + 1)..(i - 1) : S(k) = Base - 1
    IN  BNorm([i \in 1..n |-> (S(i) + (IF C(i) THEN 1 ELSE 0)) % Base])

\* a - b for a >= b: the borrow from limb i is caused by a lower limb j
\* with a[j] < b[j], through limbs that are equal
BSub(a, b) ==
    LET W(i) == \E j \in 1..(i - 1) :
                    a[j] < Limb(b, j) /\ \A k \in (j + 1)..(i - 1) : a[k] = Limb(b, k)
    IN  BNorm([i \in 1..Len(a) |->
                 (a[i] - Limb(b, i) - (IF W(i) THEN 1 ELSE 0) + Base) % Base])

\* -1, 0, 1 as a < b, a = b, a > b
BCmp(a, b) ==
    IF Len(a) < Len(b) THEN -1
    ELSE IF Len(a) > Len(b) THEN 1
    ELSE LET df == {i \in 1..Len(a) : a[i] # b[i]}
         IN  IF df = {} THEN 0
             ELSE LET i == CHOOSE i \in df : \A j \in df : j <= i
                  IN  IF a[i] < b[i] THEN -1 ELSE 1

\* a * x for one limb x
BMulLimb(a, x) ==
    BAdd([i \in 1..Len(a) |-> (a[i] * x) % Base],
         <<0>> \o [i \in 1..Len(a) |-> (a[i] * x) \div Base])

RECURSIVE BMulRec(_, _)
BMulRec(a, b) ==
    IF a = <<>> THEN <<>>
    ELSE BAdd(BMulLimb(b, Head(a)), <<0>> \o BMulRec(Tail(a), b))

BMul(a, b) == BNorm(BMulRec(a, b))

Zeros(n) == [i \in 1..n |-> 0]

\* a * 2^k
BShl(a, k) ==
    IF a = <<>> THEN <<>>
    ELSE Zeros(k \div LimbBits) \o BMulLimb(a, 2^(k % LimbBits))

\* floor(a / 2^k)
BShr(a, k) ==
    LET w == k \div LimbBits
        r == k % LimbBits
        n == Len(a) - w
    IN  IF n <= 0 THEN <<>>
        ELSE BNorm([i \in 1..n |->
                 (a[i + w] \div 2^r)
                 + (IF i + w < Len(a)
                    THEN (a[i + w + 1] % 2^r) * 2^(LimbBits - r) ELSE 0)])

\* number of bits of 0 <= x < 2^30
BitLenInt(x) == CHOOSE k \in 0..30 : x < 2^k /\ (k = 0 \/ x >= 2^(k - 1))

BBitLen(a) ==
    IF a = <<>> THEN 0
    ELSE LimbBits * (Len(a) - 1) + BitLenInt(a[Len(a)])

\* bit i (0 = least significant) of a
BBit(a, i) ==
    LET w == i \div LimbBits + 1
    IN  IF w > Len(a) THEN 0 ELSE (a[w] \div 2^(i % LimbBits)) % 2

\* number of trailing zero bits of a limb x # 0
TzInt(x) == CHOOSE k \in 0..(LimbBits - 1) : x % 2^k = 0 /\ x % 2^(k + 1) # 0

\* number of trailing zero bits of a # 0
BTz(a) ==
    LET i0 == CHOOSE i \in 1..Len(a) : a[i] # 0 /\ \A j \in 1..(i - 1) : a[j] = 0
    IN  LimbBits * (i0 - 1) + TzInt(a[i0])

\* one quotient limb of schoolbook division: floor(cur / d) for cur < d * Base
\* and d with its top bit set in its top limb; the estimate from the two
\* top limbs of cur is at most 2 too large (Knuth, algorithm D)
BDivDigit(cur, d) ==
    LET L == Len(d)
        est == MinOf((Limb(cur, L + 1) * Base + Limb(cur, L)) \div d[L], Base - 1)
    IN  CHOOSE t \in MaxOf(est - 2, 0)..est :
            BCmp(BMulLimb(d, t), cur) <= 0 /\ BCmp(BMulLimb(d, t + 1), cur) > 0

\* F(v) with v computed first and handed over as a value, as a call or an
\* assignment of the code hands over its operand
Then(v, F(_)) == CHOOSE r \in {F(w) : w \in {v}} : TRUE

\* one step of schoolbook division: up = <<quotient limbs, remainder>> of
\* the limbs above, x the next limb down
BDivStep(up, x, d) ==
    LET cur == BNorm(<<x>> \o up[2])
        t == BDivDigit(cur, d)
    IN  <<<<t>> \o up[1], BSub(cur, BMulLimb(d, t))>>

\* <<quotient limbs, remainder>> of the number made of limbs j.. of n by d
RECURSIVE BDivFrom(_, _, _)
BDivFrom(n, d, j) ==
    IF j > Len(n) THEN <<<<>>, <<>>>>
    ELSE Then(BDivFrom(n, d, j + 1), LAMBDA up : BDivStep(up, n[j], d))

\* <<floor(n / d), n mod d>> for d # 0
BDivMod(n, d) ==
    LET sh == LimbBits - BitLenInt(d[Len(d)])
        qr == BDivFrom(BShl(n, sh), BShl(d, sh), 1)
    IN  <<BNorm(qr[1]), BShr(qr[2], sh)>>

\* floor(sqrt(n)) by Newton's iteration from r >= floor(sqrt(n))
RECURSIVE BSqrtFrom(_, _)
BSqrtFrom(n, r) ==
    Then(BShr(BAdd(r, BDivMod(n, r)[1]), 1),
         LAMBDA r2 : IF BCmp(r2, r) < 0 THEN BSqrtFrom(n, r2) ELSE r)

BSqrt(n) == IF n = <<>> THEN <<>> ELSE BSqrtFrom(n, BShl(<<1>>, (BBitLen(n) + 1) \div 2))

\* a natural number below 2^31
BFromInt(x) == BNorm(<<x % Base, (x \div Base) % Base, x \div (Base * Base)>>)

\* a, for a below 2^31
BToInt(a) == Limb(a, 1) + Base * Limb(a, 2) + Base * Base * Limb(a, 3)

(***************************************************************************)
(* float64: [k, s, m, e] with k in {"fin", "inf", "nan"}, s the sign bit,  *)
(* and for finite values the magnitude m * 2^e with m odd (canonical), or  *)
(* m = <<>>, e = 0 for a zero.                                             *)
(***************************************************************************)
Prec == 53
MinExp == -1074
MaxTop == 1024

FNaN == [k |-> "nan", s |-> 0, m |-> <<>>, e |-> 0]
FInf(s) == [k |-> "inf", s |-> s, m |-> <<>>, e |-> 0]
FZero(s) == [k |-> "fin", s |-> s, m |-> <<>>, e |-> 0]

MkFin(s, m, e) ==
    IF m = <<>> THEN FZero(s)
    ELSE LET tz == BTz(m)
         IN  [k |-> "fin", s |-> s, m |-> BShr(m, tz), e |-> e + tz]

\* the float64 nearest to (-1)^s * (M + sticky) * 2^E, ties to even,
\* where sticky stands for a nonzero amount below one unit of M
RoundTo(s, M, E, sticky) ==
    IF M = <<>> THEN FZero(s)
    ELSE LET L == BBitLen(M)
             T == IF E + L - Prec < MinExp THEN MinExp ELSE E + L - Prec
         IN  IF T <= E
             THEN (IF E + L > MaxTop THEN FInf(s) ELSE MkFin(s, M, E))
             ELSE LET d == T - E
                      q == BShr(M, d)
                      rem == BSub(M, BShl(q, d))
                      c == BCmp(rem, BShl(<<1>>, d - 1))
                      up == c > 0 \/ (c = 0 /\ (sticky \/ BBit(q, 0) = 1))
                      q2 == IF up THEN BAdd(q, <<1>>) ELSE q
                  IN  IF BBitLen(q2) + T > MaxTop THEN FInf(s)
                      ELSE MkFin(s, q2, T)

\* Go conversion of a small integer constant to float64
FromInt(i) == IF i < 0 THEN MkFin(1, BFromInt(-i), 0) ELSE MkFin(0, BFromInt(i), 0)
\* 2^n as a float64, for n in the normal range
FPow2(n) == [k |-> "fin", s |-> 0, m |-> <<1>>, e |-> n]

FIsNaN(a) == a.k = "nan"
FIsInf(a) == a.k = "inf"
FIsZero(a) == a.k = "fin" /\ a.m = <<>>
FIsFinite(a) == a.k = "fin"

FNeg(a) == IF a.k = "nan" THEN a ELSE [a EXCEPT !.s = 1 - a.s]

\* compare magnitudes of two finite floats
CmpMag(a, b) ==
    IF a.m = <<>> \/ b.m = <<>>
    THEN (IF a.m = b.m THEN 0 ELSE IF a.m = <<>> THEN -1 ELSE 1)
    ELSE LET ta == a.e + BBitLen(a.m)
             tb == b.e + BBitLen(b.m)
             e0 == MinOf(a.e, b.e)
         IN  IF ta < tb THEN -1 ELSE IF ta > tb THEN 1
             ELSE BCmp(BShl(a.m, a.e - e0), BShl(b.m, b.e - e0))

\* three-way comparison of two non-NaN floats (-0 equals +0)
Cmp3(a, b) ==
    LET sg(x) == IF x.k = "fin" /\ x.m = <<>> THEN 0 ELSE IF x.s = 1 THEN -1 ELSE 1
        cl(x) == IF x.k = "inf" THEN 2 * sg(x) ELSE sg(x)
    IN  IF cl(a) < cl(b) THEN -1
        ELSE IF cl(a) > cl(b) THEN 1
        ELSE IF a.k = "inf" \/ sg(a) = 0 THEN 0
        ELSE sg(a) * CmpMag(a, b)

\* Go's ==, <, >, <= on float64: every comparison with NaN is false
FEq(a, b) == a.k # "nan" /\ b.k # "nan" /\ Cmp3(a, b) = 0
FLt(a, b) == a.k # "nan" /\ b.k # "nan" /\ Cmp3(a, b) < 0
FGt(a, b) == a.k # "nan" /\ b.k # "nan" /\ Cmp3(a, b) > 0
FLe(a, b) == a.k # "nan" /\ b.k # "nan" /\ Cmp3(a, b) <= 0

\* a + b
FAdd(a, b) ==
    IF a.k = "nan" \/ b.k = "nan" THEN FNaN
    ELSE IF a.k = "inf"
    THEN (IF b.k = "inf" /\ b.s # a.s THEN FNaN ELSE a)
    ELSE IF b.k = "inf" THEN b
    ELSE IF a.m = <<>> /\ b.m = <<>> THEN FZero(IF a.s = 1 /\ b.s = 1 THEN 1 ELSE 0)
    ELSE IF a.m = <<>> THEN b
    ELSE IF b.m = <<>> THEN a
    ELSE LET ta == a.e + BBitLen(a.m)
             tb == b.e + BBitLen(b.m)
             e0 == MinOf(a.e, b.e)
             A == BShl(a.m, a.e - e0)
             B == BShl(b.m, b.e - e0)
             c == BCmp(A, B)
         IN  \* an operand below a quarter unit in the last place of the
             \* other cannot change the rounded sum
             IF ta - tb >= Prec + 2 THEN a
             ELSE IF tb - ta >= Prec + 2 THEN b
             ELSE IF a.s = b.s THEN RoundTo(a.s, BAdd(A, B), e0, FALSE)
             ELSE IF c = 0 THEN FZero(0)
             ELSE IF c > 0 THEN RoundTo(a.s, BSub(A, B), e0, FALSE)
             ELSE RoundTo(b.s, BSub(B, A), e0, FALSE)

\* a - b
FSub(a, b) == FAdd(a, FNeg(b))

\* a * b
FMul(a, b) ==
    LET s == (a.s + b.s) % 2
    IN  IF a.k = "nan" \/ b.k = "nan" THEN FNaN
        ELSE IF a.k = "inf" \/ b.k = "inf"
        THEN (IF FIsZero(a) \/ FIsZero(b) THEN FNaN ELSE FInf(s))
        ELSE IF a.m = <<>> \/ b.m = <<>> THEN FZero(s)
        ELSE RoundTo(s, BMul(a.m, b.m), a.e + b.e, FALSE)

\* a / b
FDiv(a, b) ==
    LET s == (a.s + b.s) % 2
    IN  IF a.k = "nan" \/ b.k = "nan" THEN FNaN
        ELSE IF a.k = "inf" THEN (IF b.k = "inf" THEN FNaN ELSE FInf(s))
        ELSE IF b.k = "inf" THEN FZero(s)
        ELSE IF b.m = <<>> THEN (IF a.m = <<>> THEN FNaN ELSE FInf(s))
        ELSE IF a.m = <<>> THEN FZero(s)
        ELSE LET sh == Prec + 3 + BBitLen(b.m) - BBitLen(a.m)
                 k == IF sh < 0 THEN 0 ELSE sh
                 qr == BDivMod(BShl(a.m, k), b.m)
             IN  RoundTo(s, qr[1], a.e - b.e - k, qr[2] # <<>>)

\* math.Sqrt(a), correctly rounded
FSqrt(a) ==
    IF a.k = "nan" THEN FNaN
    ELSE IF FIsZero(a) THEN a
    ELSE IF a.s = 1 THEN FNaN
    ELSE IF a.k = "inf" THEN a
    ELSE LET k0 == 2 * Prec + 4 - BBitLen(a.m)
             k1 == IF k0 < 0 THEN 0 ELSE k0
             k == IF (a.e - k1) % 2 = 0 THEN k1 ELSE k1 + 1
             N == BShl(a.m, k)
             r == BSqrt(N)
         IN  RoundTo(0, r, (a.e - k) \div 2, BMul(r, r) # N)

\* math.Floor(a)
FFloor(a) ==
    IF a.k # "fin" \/ a.m = <<>> \/ a.e >= 0 THEN a
    ELSE LET q == BShr(a.m, -a.e)
         IN  IF a.s = 0 THEN MkFin(0, q, 0) ELSE MkFin(1, BAdd(q, <<1>>), 0)

\* int(a) for an integral float64 of small magnitude
FToInt(a) ==
    LET v == BToInt(BShl(a.m, a.e))
    IN  IF a.s = 1 THEN -v ELSE v

(***************************************************************************)
(* Double: the pair [hi, lo] of float64, value hi + lo.                    *)
(***************************************************************************)
D(h, l) == [hi |-> h, lo |-> l]

\* math.Inf(sign)
MathInf(sign) == IF sign >= 0 THEN FInf(0) ELSE FInf(1)

Zero == D(FromInt(0), FromInt(0))
One == D(FromInt(1), FromInt(0))
Inf == D(MathInf(1), MathInf(1))
NegInf == D(FNeg(MathInf(-1)), FNeg(MathInf(-1)))
NaN == D(FNaN, FNaN)
\* {2.718281828459045, 1.4456468917292502e-16}
E == D(MkFin(0, <<22377, 5672, 31786, 173>>, -51), MkFin(0, <<157, 25265, 11005, 83>>, -104))
\* {0.6931471805599453, 2.319046813846299e-17}
Log2 == D(MkFin(0, <<14831, 32244, 14603, 177>>, -53), MkFin(0, <<61, 30323, 29304, 213>>, -108))

FromFloat(f) == D(f, FromInt(0))

ToFloat64(d) == FAdd(d.hi, d.lo)
Equal(d, x) == FEq(d.hi, x.hi) /\ FEq(d.lo, x.lo)
Neg(d) == D(FNeg(d.hi), FNeg(d.lo))

\* Cmp with the low parts compared whatever the high parts are
CmpLowAlways(d, x) ==
    IF FEq(d.hi, x.hi) /\ FEq(d.lo, x.lo) THEN 0
    ELSE IF FGt(d.hi, x.hi) \/ FGt(d.lo, x.lo) THEN 1
    ELSE -1

Cmp(d, x) ==
    IF FEq(d.hi, x.hi) /\ FEq(d.lo, x.lo) THEN 0
    ELSE IF FGt(d.hi, x.hi) \/ (FEq(d.hi, x.hi) /\ FGt(d.lo, x.lo)) THEN 1
    ELSE -1

doubleEq21(x, f) == FEq(x.hi, f) /\ FEq(x.lo, FromInt(0))
doubleLe21(x, f) == FLt(x.hi, f) \/ (FEq(x.hi, f) /\ FLe(x.lo, FromInt(0)))

splitter == FromInt(2^27 + 1)

\* doubleTwoSum with the correction taken as if |a| >= |b| always held
doubleTwoSumFast(a, b) ==
    LET s == FAdd(a, b)
    IN  D(s, FSub(b, FSub(s, a)))

doubleTwoSum(a, b) ==
    LET s == FAdd(a, b)
        a1 == FSub(s, b)
    IN  D(s, FAdd(FSub(a, a1), FSub(b, FSub(s, a1))))

twoProd(a, b) ==
    LET t1 == FMul(splitter, a)
        ah == FAdd(t1, FSub(a, t1))
        al == FSub(a, ah)
        t2 == FMul(splitter, b)
        bh == FAdd(t2, FSub(b, t2))
        bl == FSub(b, bh)
        t == FMul(a, b)
    IN  D(t, FAdd(FAdd(FAdd(FSub(FMul(ah, bh), t), FMul(ah, bl)), FMul(al, bh)),
                  FMul(al, bl)))

\* oneSqr with the cross term al * ah added once instead of twice
oneSqrSingleCross(a) ==
    LET t1 == FMul(splitter, a)
        ah == FAdd(t1, FSub(a, t1))
        al == FSub(a, ah)
        t == FMul(a, a)
        hl == FMul(al, ah)
    IN  D(t, FAdd(FAdd(FSub(FMul(ah, ah), t), hl), FMul(al, al)))

oneSqr(a) ==
    LET t1 == FMul(splitter, a)
        ah == FAdd(t1, FSub(a, t1))
        al == FSub(a, ah)
        t == FMul(a, a)
        hl == FMul(al, ah)
    IN  D(t, FAdd(FAdd(FAdd(FSub(FMul(ah, ah), t), hl), hl), FMul(al, al)))

FromSum(a, b) == doubleTwoSum(a, b)
FromMul(a, b) == twoProd(a, b)
FromSqr(a) == oneSqr(a)

\* add22 folding the wrong component of the low sum: e.lo for e.hi
add22LowSumLost(x, y) ==
    LET s == doubleTwoSum(x.hi, y.hi)
        e == doubleTwoSum(x.lo, y.lo)
        c1 == FAdd(s.lo, e.lo)
        vh == FAdd(s.hi, c1)
        vl == FSub(c1, FSub(vh, s.hi))
        c == FAdd(vl, e.lo)
    IN  D(FAdd(vh, c), FSub(c, FSub(x.hi, vh)))

add22(x, y) ==
    LET s == doubleTwoSum(x.hi, y.hi)
        e == doubleTwoSum(x.lo, y.lo)
        c1 == FAdd(s.lo, e.hi)
        vh == FAdd(s.hi, c1)
        vl == FSub(c1, FSub(vh, s.hi))
        c == FAdd(vl, e.lo)
    IN  D(FAdd(vh, c), FSub(c, FSub(x.hi, vh)))

sub22(x, y) ==
    LET s == doubleTwoSum(x.hi, FNeg(y.hi))
        e == doubleTwoSum(x.lo, FNeg(y.lo))
        c1 == FAdd(s.lo, e.hi)
        vh == FAdd(s.hi, c1)
        vl == FSub(c1, FSub(vh, s.hi))
        c == FAdd(vl, e.lo)
    IN  D(FAdd(vh, c), FSub(c, FSub(x.hi, vh)))

mul22(x, y) ==
    LET s == twoProd(x.hi, y.hi)
        slo == FAdd(s.lo, FAdd(FMul(x.hi, y.lo), FMul(x.lo, y.hi)))
    IN  D(FAdd(s.hi, slo), FSub(slo, FSub(x.hi, s.hi)))

div22(x, y) ==
    LET s == FDiv(x.hi, y.hi)
        t == twoProd(s, y.hi)
        e == FDiv(FSub(FAdd(FSub(FSub(x.hi, t.hi), t.lo), x.lo), FMul(s, y.lo)), y.hi)
    IN  D(FAdd(s, e), FSub(e, FSub(x.hi, s)))

\* x ** 2
doubleSqr2(x) ==
    LET S == oneSqr(x.hi)
        c == FMul(x.hi, x.lo)
        Slo == FAdd(S.lo, FAdd(c, c))
    IN  D(FAdd(S.hi, Slo), FSub(Slo, FSub(x.hi, S.hi)))

\* x ** 0.5
doubleSqrt2(x) ==
    LET s == FSqrt(x.hi)
        t == oneSqr(s)
        e == FDiv(FMul(FAdd(FSub(FSub(x.hi, t.hi), t.lo), x.lo), FPow2(-1)), s)
    IN  D(FAdd(s, e), FSub(e, FSub(x.hi, s)))

\* x + f
addDF(x, f) ==
    LET s == doubleTwoSum(x.hi, f)
        slo == FAdd(s.lo, x.lo)
    IN  D(FAdd(s.hi, slo), FSub(slo, FSub(x.hi, s.hi)))

\* x - f
doubleSubDF(x, f) ==
    LET s == doubleTwoSum(x.hi, FNeg(f))
        slo == FAdd(s.lo, x.lo)
    IN  D(FAdd(s.hi, slo), FSub(slo, FSub(x.hi, s.hi)))

\* x * f
doubleMulDF(x, f) ==
    LET c == twoProd(x.hi, f)
        cl1 == FMul(x.lo, f)
        th == FAdd(c.hi, cl1)
        xlo == FSub(cl1, FSub(th, c.hi))
        cl == FAdd(xlo, c.lo)
    IN  D(FAdd(th, cl), FSub(cl, FSub(x.hi, th)))

\* x / f
doubleDivDF(x, f) ==
    LET th == FDiv(x.hi, f)
        p == twoProd(th, f)
        d == doubleTwoSum(x.hi, FNeg(p.hi))
        tl == FDiv(FAdd(d.hi, FAdd(d.lo, FSub(x.lo, p.lo))), f)
    IN  D(FAdd(th, tl), FSub(tl, FSub(x.hi, th)))

\* |x|
doubleAbsD(x) == IF FLt(x.hi, FromInt(0)) THEN Neg(x) ELSE x

\* 1 / x
doubleInv2(x) ==
    LET xh == x.hi
        s == FDiv(FromInt(1), xh)
        x1 == doubleMulDF(x, s)
        zl == FDiv(FSub(FSub(FromInt(1), x1.hi), x1.lo), xh)
    IN  D(FAdd(s, zl), FSub(zl, FSub(x1.hi, s)))

\* float64(int(1) << n) for a shift count n >= 0 of a 64-bit int:
\* bit 63 is the sign bit, larger shifts leave 0
ShiftOne(n) ==
    IF n < 63 THEN FPow2(n)
    ELSE IF n = 63 THEN FNeg(FPow2(63))
    ELSE FZero(0)

\* x * 2 ** n
doubleMulDFpow2(x, n) ==
    LET n1 == IF n < 0 THEN -n ELSE n
        c1 == ShiftOne(n1)
        c == IF n1 < 0 THEN FDiv(FromInt(1), c1) ELSE c1
    IN  D(FMul(x.hi, c), FMul(x.lo, c))

padeCoef == <<
    MkFin(0, <<1>>, 0),                          \* 1
    MkFin(0, <<17>>, 4),                         \* 272
    MkFin(0, <<2295>>, 4),                       \* 36720
    MkFin(0, <<3441, 3>>, 5),                    \* 3255840
    MkFin(0, <<27057, 201>>, 5),                 \* 211629600
    MkFin(0, <<131, 2543>>, 7),                  \* 10666131840
    MkFin(0, <<27129, 4263, 3>>, 7),             \* 430200650880
    MkFin(0, <<29069, 13874, 51>>, 8),           \* 14135164243200
    MkFin(0, <<31199, 14173, 1388>>, 8),         \* 381649434566400
    MkFin(0, <<17487, 24808, 3856>>, 11),        \* 8481098545920000
    MkFin(0, <<13377, 21818, 3134, 137>>, 5),    \* 154355993535744030
    MkFin(0, <<8239, 5908, 12473, 252>>, 8),     \* 2273242813890047700
    MkFin(0, <<25123, 894, 903, 184>>, 12),      \* 26521166162050560000
    MkFin(0, <<9489, 4378, 21551, 25>>, 18),     \* 236650405753681870000
    MkFin(0, <<147, 23465, 30876, 164>>, 18),    \* 1.5213240369879552e+21
    MkFin(0, <<20905, 22062, 14429, 170>>, 20),  \* 6.288139352883548e+21
    MkFin(0, <<20905, 22062, 14429, 170>>, 21)   \* 1.2576278705767096e+22
>>

\* the numerator loop of doubleExp from index i (1-based) on
RECURSIVE ExpU(_, _, _)
ExpU(U, x, i) ==
    IF i > Len(padeCoef) THEN U
    ELSE Then(addDF(mul22(U, x), padeCoef[i]), LAMBDA U1 : ExpU(U1, x, i + 1))

\* the denominator loop of doubleExp: the sign is + at even 0-based index
RECURSIVE ExpV(_, _, _)
ExpV(V, x, i) ==
    IF i > Len(padeCoef) THEN V
    ELSE LET sgn == IF (i - 1) % 2 = 0 THEN FromInt(1) ELSE FromInt(-1)
         IN  Then(addDF(mul22(V, x), FMul(padeCoef[i], sgn)),
                  LAMBDA V1 : ExpV(V1, x, i + 1))

\* e ** x
doubleExp(x) ==
    IF doubleEq21(x, FromInt(0)) THEN One
    ELSE IF doubleEq21(x, FromInt(1)) THEN E
    ELSE LET n == FFloor(FAdd(FDiv(x.hi, Log2.hi), FPow2(-1)))
             x1 == sub22(x, doubleMulDF(Log2, n))
             U == ExpU(One, x1, 1)
             V == ExpV(One, x1, 1)
         IN  Then(div22(U, V), LAMBDA q : doubleMulDFpow2(q, FToInt(n)))

\* math.Log at the one argument the model passes to it: Log(1) = 0
MathLog(f) == CASE FEq(f, FromInt(1)) -> FromInt(0)

doubleLn2(x) ==
    IF doubleLe21(x, FromInt(0)) THEN NegInf
    ELSE IF doubleEq21(x, FromInt(1)) THEN Zero
    ELSE LET Z == FromFloat(MathLog(x.hi))
         IN  doubleSubDF(add22(mul22(x, doubleExp(Neg(Z))), Z), FromInt(1))

doubleSinh2(x) ==
    LET exp == doubleExp(x)
    IN  doubleMulDFpow2(sub22(exp, doubleInv2(exp)), -1)

doubleCosh2(x) ==
    LET exp == doubleExp(x)
    IN  doubleMulDFpow2(add22(exp, doubleInv2(exp)), -1)

\* bits.LeadingZeros32(uint32(v)) for 0 < v < 2^31
LeadingZeros32(v) == 32 - BitLenInt(v)

\* n | 1
OrOne(n) == IF n % 2 = 0 THEN n + 1 ELSE n

\* the squaring loop of pow2n: for ; i != 0; i-- { x = doubleSqr2(x) }
RECURSIVE SqrLoop(_, _)
SqrLoop(x, i) == IF i = 0 THEN x ELSE SqrLoop(doubleSqr2(x), i - 1)

\* the multiplying loop of pow2n: for ; j != 0; j-- { x = mul22(x, x0) }
RECURSIVE MulLoop(_, _, _)
MulLoop(x, x0, j) ==
    IF FEq(j, FromInt(0)) THEN x
    ELSE MulLoop(mul22(x, x0), x0, FSub(j, FromInt(1)))

\* the number of times the bodies of the two loops of pow2n run
pow2nIterations(n) ==
    IF n = 0 \/ n = 1 THEN 0
    ELSE LET n1 == IF ~(n > 0) THEN -n ELSE n
             i == 31 - LeadingZeros32(OrOne(n1))
             j == FFloor(FromInt(n1 - 2^i))
         IN  i + FToInt(j)

\* pow2n testing the sign after the negation: the reciprocal is never taken
pow2nNoInverse(x, n) ==
    IF n = 0 THEN One
    ELSE IF n = 1 THEN x
    ELSE LET n1 == IF n < 0 THEN -n ELSE n
             i == 31 - LeadingZeros32(OrOne(n1))
             j == FFloor(FromInt(n1 - 2^i))
         IN  MulLoop(SqrLoop(x, i), x, j)

\* x ** n
pow2n(x, n) ==
    IF n = 0 THEN One
    ELSE IF n = 1 THEN x
    ELSE LET isPositive == n > 0
             n1 == IF ~isPositive THEN -n ELSE n
             i == 31 - LeadingZeros32(OrOne(n1))
             j == FFloor(FromInt(n1 - 2^i))
             xr == MulLoop(SqrLoop(x, i), x, j)
         IN  IF isPositive THEN xr ELSE doubleInv2(xr)

(***************************************************************************)
(* The histogram: a reservoir of at most maxSamples float64 samples with   *)
(* the exact minimum and maximum kept aside.  Its random generator is the  *)
(* 32-bit xorshift of fastrand.RNG, kept as the 32 bits of its state.      *)
(***************************************************************************)
maxSamples == 1000

InfPos == MathInf(1)
InfNeg == MathInf(-1)

\* fastrand.RNG.Seed(n) for n < 2^31
RngSeed(k) == [i \in 0..31 |-> i < 31 /\ (k \div 2^i) % 2 = 1]
RngXor(a, b) == [i \in 0..31 |-> a[i] # b[i]]
RngShl(a, k) == [i \in 0..31 |-> IF i >= k THEN a[i - k] ELSE FALSE]
RngShr(a, k) == [i \in 0..31 |-> IF i + k <= 31 THEN a[i + k] ELSE FALSE]

\* fastrand.RNG.Uint32: x ^= x << 13; x ^= x >> 17; x ^= x << 5
\* (the state is never 0 after Seed(1))
RngNext(a) ==
    LET x1 == RngXor(a, RngShl(a, 13))
        x2 == RngXor(x1, RngShr(x1, 17))
    IN  RngXor(x2, RngShl(x2, 5))

\* the 16-bit half of a generator state that starts at bit lowest
RECURSIVE RngHalf(_, _, _)
RngHalf(a, lowest, i) ==
    IF i = 16 THEN 0
    ELSE (IF a[lowest + i] THEN 2^i ELSE 0) + RngHalf(a, lowest, i + 1)

\* fastrand.RNG.Uint32n: uint32((uint64(x) * uint64(maxN)) >> 32), maxN < 2^15
RngUint32n(a, maxN) ==
    (RngHalf(a, 16, 0) * maxN + (RngHalf(a, 0, 0) * maxN) \div 2^16) \div 2^16

\* the zero value of the struct
ZeroHistogram ==
    [max |-> FromInt(0), min |-> FromInt(0), count |-> 0,
     vals |-> <<>>, tmp |-> <<>>, rng |-> RngSeed(0)]

\* Reset leaving the extremes of the last run in place
ResetKeepsExtremes(h) ==
    [max |-> h.max, min |-> h.min, count |-> 0,
     vals |-> IF Len(h.vals) > 0 THEN SubSeq(h.vals, 1, 0) ELSE <<>>,
     tmp |-> IF Len(h.vals) > 0 THEN SubSeq(h.tmp, 1, 0) ELSE <<>>,
     rng |-> RngSeed(1)]

Reset(h) ==
    [max |-> InfNeg, min |-> InfPos, count |-> 0,
     vals |-> IF Len(h.vals) > 0 THEN SubSeq(h.vals, 1, 0) ELSE <<>>,
     tmp |-> IF Len(h.vals) > 0 THEN SubSeq(h.tmp, 1, 0) ELSE <<>>,
     rng |-> RngSeed(1)]

NewHistogram == Reset(ZeroHistogram)

\* Update looking at the minimum only when v is not a new maximum
UpdateElseMin(h, v) ==
    LET max1 == IF FGt(v, h.max) THEN v ELSE h.max
        min1 == IF ~FGt(v, h.max) /\ FLt(v, h.min) THEN v ELSE h.min
        count1 == h.count + 1
    IN  IF Len(h.vals) < maxSamples
        THEN [h EXCEPT !.max = max1, !.min = min1, !.count = count1,
                       !.vals = Append(h.vals, v)]
        ELSE LET rng1 == RngNext(h.rng)
                 k == RngUint32n(rng1, count1)
             IN  [h EXCEPT !.max = max1, !.min = min1, !.count = count1,
                           !.rng = rng1,
                           !.vals = IF k < Len(h.vals)
                                    THEN [h.vals EXCEPT ![k + 1] = v]
                                    ELSE h.vals]

Update(h, v) ==
    LET max1 == IF FGt(v, h.max) THEN v ELSE h.max
        min1 == IF FLt(v, h.min) THEN v ELSE h.min
        count1 == h.count + 1
    IN  IF Len(h.vals) < maxSamples
        THEN [h EXCEPT !.max = max1, !.min = min1, !.count = count1,
                       !.vals = Append(h.vals, v)]
        ELSE LET rng1 == RngNext(h.rng)
                 k == RngUint32n(rng1, count1)
             IN  [h EXCEPT !.max = max1, !.min = min1, !.count = count1,
                           !.rng = rng1,
                           !.vals = IF k < Len(h.vals)
                                    THEN [h.vals EXCEPT ![k + 1] = v]
                                    ELSE h.vals]

\* the order of sort.Float64s: ascending, NaN before every number
Float64Less(a, b) == FLt(a, b) \/ (FIsNaN(a) /\ ~FIsNaN(b))
SortFloat64s(a) == SortSeq(a, Float64Less)

\* h.tmp = append(h.tmp[:0], h.vals...); sort.Float64s(h.tmp)
FillTmp(h) == [h EXCEPT !.tmp = SortFloat64s(h.vals)]

quantile(h, phi) ==
    IF Len(h.tmp) = 0 \/ FIsNaN(phi) THEN FNaN
    ELSE IF FLe(phi, FromInt(0)) THEN h.min
    ELSE IF FLe(FromInt(1), phi) THEN h.max
    ELSE LET idx == FToInt(FAdd(FMul(phi, FromInt(Len(h.tmp) - 1)), FPow2(-1)))
         IN  IF idx >= Len(h.tmp) THEN h.tmp[Len(h.tmp)] ELSE h.tmp[idx + 1]

quantiles(h, dst, phis) == dst \o [i \in 1..Len(phis) |-> quantile(h, phis[i])]

\* the loop of MergeHistograms, from the i-th histogram of hs on
RECURSIVE MergeFrom(_, _, _)
MergeFrom(t, hs, i) ==
    IF i > Len(hs) THEN t
    ELSE MergeFrom([t EXCEPT !.vals = t.vals \o hs[i].vals,
                             !.max = IF FLt(t.max, hs[i].max) THEN hs[i].max ELSE t.max,
                             !.min = IF FGt(t.min, hs[i].min) THEN hs[i].min ELSE t.min],
                   hs, i + 1)

MergeHistograms(hs) == MergeFrom(NewHistogram, hs, 1)

(***************************************************************************)
(* A client of the package: it calls one function with arguments drawn     *)
(* from the sets below, holds the returned Double in r, and returns.       *)
(***************************************************************************)
MaxInt == 3
MaxPow == 10
HugeExp == 600

\* 1e-20
Tiny == MkFin(0, <<16931, 6436, 29316, 188>>, -119)
\* 0.1
Tenth == MkFin(0, <<19661, 6553, 13107, 102>>, -55)
Third == FDiv(FromInt(1), FromInt(3))
Huge == FPow2(HugeExp)

Ints == {FromInt(i) : i \in (-MaxInt)..MaxInt}
Floats == Ints \cup {Tiny, FNeg(Tiny), Tenth, Third, FPow2(Prec)}

\* Doubles a caller builds with the constructors
Operands ==
    {FromFloat(f) : f \in Ints \cup {Third, Huge}}
    \cup {FromSum(FromInt(1), Tiny), FromSum(FromInt(-2), Tiny),
          FromSum(Third, FNeg(Tiny)), FromMul(Third, Tenth)}

Squares == {FromFloat(FromInt(i * i)) : i \in 1..MaxInt}
SqrtArgs == {d \in Operands : FGt(d.hi, FromInt(0))} \cup Squares
Scales == ((-MaxPow)..MaxPow) \cup {63, 64}
Powers == (-MaxPow)..MaxPow
ExpArgs == {FromFloat(FromInt(i)) : i \in -1..2} \cup {FromFloat(Third)}
LnArgs == {d \in Operands : doubleLe21(d, FromInt(0)) \/ FEq(d.hi, FromInt(1))}
CmpArgs ==
    Operands \cup {Neg(Zero), Inf, Neg(Inf), NaN, D(FromInt(1), FNaN),
                   FromSum(FromInt(1), FNeg(Tiny))}

VARIABLES op, x, y, fa, fb, n, r, cmp, steps
dvars == <<op, x, y, fa, fb, n, r, cmp, steps>>

\* the histogram a caller fills, asks and resets, the histogram it merged, a
\* histogram it makes anew at each Reset of the first and feeds the same
\* values, and what the caller knows: where it is, the values it fed since
\* the last Reset, the phis it asked and the answers it got, and whether it
\* has reset the first histogram after a run that drew random numbers
VARIABLES hop, hist, merged, ref, fed, asked, qs, reused
hvars == <<hop, hist, merged, ref, fed, asked, qs, reused>>

vars == <<dvars, hvars>>

F0 == FromInt(0)

Init ==
    /\ op = "idle"
    /\ x = Zero /\ y = Zero
    /\ fa = F0 /\ fb = F0
    /\ n = 0
    /\ r = Zero
    /\ cmp = 0
    /\ steps = 0
    /\ hop = "fill"
    /\ hist = NewHistogram
    /\ merged = NewHistogram
    /\ ref = NewHistogram
    /\ reused = FALSE
    /\ fed = <<>>
    /\ asked = <<>>
    /\ qs = <<>>

\* a call f(a, b) on two float64
CallFF(name, a, b, res) ==
    /\ op = "idle"
    /\ op' = name
    /\ fa' = a /\ fb' = b
    /\ r' = res
    /\ UNCHANGED <<x, y, n, cmp, steps, hvars>>

\* a call f(d, e) on two Doubles
CallDD(name, d, e, res) ==
    /\ op = "idle"
    /\ op' = name
    /\ x' = d /\ y' = e
    /\ r' = res
    /\ UNCHANGED <<fa, fb, n, cmp, steps, hvars>>

\* a call f(d, a) on a Double and a float64
CallDF(name, d, a, res) ==
    /\ op = "idle"
    /\ op' = name
    /\ x' = d /\ fa' = a
    /\ r' = res
    /\ UNCHANGED <<y, fb, n, cmp, steps, hvars>>

\* a call f(d, k) on a Double and an int, whose loops run its times
CallDN(name, d, k, res, its) ==
    /\ op = "idle"
    /\ op' = name
    /\ x' = d /\ n' = k
    /\ r' = res
    /\ steps' = its
    /\ UNCHANGED <<y, fa, fb, cmp, hvars>>

\* a call f(d, e) on two Doubles that returns an int
CallDDInt(name, d, e, res) ==
    /\ op = "idle"
    /\ op' = name
    /\ x' = d /\ y' = e
    /\ cmp' = res
    /\ UNCHANGED <<fa, fb, n, r, steps, hvars>>

CallFromFloat == \E a \in Floats : CallFF("FromFloat", a, F0, FromFloat(a))
CallFromSum == \E a, b \in Floats : CallFF("FromSum", a, b, FromSum(a, b))
CallFromMul == \E a, b \in Floats : CallFF("FromMul", a, b, FromMul(a, b))
CallFromSqr == \E a \in Floats : CallFF("FromSqr", a, F0, FromSqr(a))

Add == \E d, e \in Operands : CallDD("Add", d, e, add22(d, e))
Sub == \E d, e \in Operands : CallDD("Sub", d, e, sub22(d, e))
Mul == \E d, e \in Operands : CallDD("Mul", d, e, mul22(d, e))
Div == \E d, e \in Operands : CallDD("Div", d, e, div22(d, e))
Abs == \E d \in Operands : CallDD("Abs", d, Zero, doubleAbsD(d))
CallNeg == \E d \in Operands : CallDD("Neg", d, Zero, Neg(d))
Inv == \E d \in Operands : CallDD("Inv", d, Zero, doubleInv2(d))
Sqr == \E d \in Operands : CallDD("Sqr", d, Zero, doubleSqr2(d))
CallCmp == \E d, e \in CmpArgs : CallDDInt("Cmp", d, e, Cmp(d, e))

CallSqrt2 == \E d \in SqrtArgs : CallDD("Sqrt2", d, Zero, doubleSqrt2(d))
CallExp == \E d \in ExpArgs : CallDD("Exp", d, Zero, doubleExp(d))
CallLn2 == \E d \in LnArgs : CallDD("Ln2", d, Zero, doubleLn2(d))
CallSinh2 == \E d \in ExpArgs : CallDD("Sinh2", d, Zero, doubleSinh2(d))
CallCosh2 == \E d \in ExpArgs : CallDD("Cosh2", d, Zero, doubleCosh2(d))

CallAddDF == \E d \in Operands, a \in Ints : CallDF("AddDF", d, a, addDF(d, a))
CallSubDF == \E d \in Operands, a \in Ints : CallDF("SubDF", d, a, doubleSubDF(d, a))
CallMulDF == \E d \in Operands, a \in Ints : CallDF("MulDF", d, a, doubleMulDF(d, a))
CallDivDF == \E d \in Operands, a \in Ints : CallDF("DivDF", d, a, doubleDivDF(d, a))

CallMulDFpow2 ==
    \E d \in Operands, k \in Scales : CallDN("MulDFpow2", d, k, doubleMulDFpow2(d, k), 0)
CallPow2n ==
    \E d \in Operands, k \in Powers : CallDN("Pow2n", d, k, pow2n(d, k), pow2nIterations(k))

\* the caller drops the result and is ready for the next call
Return ==
    /\ op # "idle"
    /\ op' = "idle"
    /\ x' = Zero /\ y' = Zero
    /\ fa' = F0 /\ fb' = F0
    /\ n' = 0
    /\ r' = Zero
    /\ cmp' = 0
    /\ steps' = 0
    /\ UNCHANGED hvars

Next ==
    \/ CallFromFloat \/ CallFromSum \/ CallFromMul \/ CallFromSqr
    \/ Add \/ Sub \/ Mul \/ Div \/ Abs \/ CallNeg \/ Inv \/ Sqr \/ CallCmp
    \/ CallSqrt2 \/ CallExp \/ CallLn2 \/ CallSinh2 \/ CallCosh2
    \/ CallAddDF \/ CallSubDF \/ CallMulDF \/ CallDivDF
    \/ CallMulDFpow2 \/ CallPow2n
    \/ Return

Spec == Init /\ [][Next]_vars

(***************************************************************************)
(* A caller of the histogram.  It feeds a first value and then 1, 2, 3,    *)
(* ... as the tests do; after few or after many values it asks quantiles   *)
(* or merges; it resets at any time.                                       *)
(***************************************************************************)
Extra == 3
Few == 3
MaxFed == maxSamples + Extra

Half == FPow2(-1)
Firsts == {F0, InfPos}
Phis == {FNaN, FromInt(-1), F0, Half, FromInt(1), FromInt(2)}
PhiList == <<F0, Half, FromInt(1)>>

\* the caller stops to ask or merge after few values or near a full reservoir
AtStop == Len(fed) <= Few \/ Len(fed) >= maxSamples - Few

\* h.Update(v) with the next value of the stream
HUpdate ==
    /\ hop = "fill"
    /\ Len(fed) < MaxFed
    /\ \E v \in (IF fed = <<>> THEN Firsts ELSE {FromInt(Len(fed))}) :
           /\ hist' = Update(hist, v)
           /\ ref' = Update(ref, v)
           /\ fed' = Append(fed, v)
    /\ UNCHANGED <<hop, merged, asked, qs, reused, dvars>>

\* q := h.Quantile(phi)
HQuantile ==
    /\ hop = "fill" /\ AtStop
    /\ LET h1 == FillTmp(hist)
       IN  \E phi \in Phis :
               /\ hist' = h1
               /\ asked' = <<phi>>
               /\ qs' = <<quantile(h1, phi)>>
    /\ hop' = "asked"
    /\ UNCHANGED <<merged, ref, fed, reused, dvars>>

\* qs := h.Quantiles(nil, phis)
HQuantiles ==
    /\ hop = "fill" /\ AtStop
    /\ LET h1 == FillTmp(hist)
       IN  /\ hist' = h1
           /\ asked' = PhiList
           /\ qs' = quantiles(h1, <<>>, PhiList)
    /\ hop' = "asked"
    /\ UNCHANGED <<merged, ref, fed, reused, dvars>>

\* t := MergeHistograms(hs) with hs made of h
HMerge ==
    /\ hop = "fill" /\ AtStop
    /\ \E hs \in {<<>>, <<hist>>, <<hist, hist>>} :
           merged' = MergeHistograms(hs)
    /\ hop' = "merged"
    /\ UNCHANGED <<hist, ref, fed, asked, qs, reused, dvars>>

\* the caller drops the merged histogram
HDrop ==
    /\ hop = "merged"
    /\ hop' = "fill"
    /\ merged' = NewHistogram
    /\ UNCHANGED <<hist, ref, fed, asked, qs, reused, dvars>>

\* h.Reset(), and a new histogram to compare it with
HReset ==
    /\ hop \in {"fill", "asked"}
    /\ hist' = Reset(hist)
    /\ ref' = NewHistogram
    /\ reused' = (reused \/ Len(fed) > maxSamples)
    /\ hop' = "fill"
    /\ fed' = <<>>
    /\ asked' = <<>>
    /\ qs' = <<>>
    /\ UNCHANGED <<merged, dvars>>

HistNext == HUpdate \/ HQuantile \/ HQuantiles \/ HMerge \/ HDrop \/ HReset

HistSpec == Init /\ [][HistNext]_vars

(***************************************************************************)
(* Properties                                                              *)
(***************************************************************************)
Finite(d) == FIsFinite(d.hi) /\ FIsFinite(d.lo)
NoNaN(d) == ~FIsNaN(d.hi) /\ ~FIsNaN(d.lo)
\* hi + lo rounds back to hi
Normalized(d) == Finite(d) /\ FEq(FAdd(d.hi, d.lo), d.hi)

RECURSIVE Power(_, _)
Power(b, k) == IF k = 0 THEN 1 ELSE b * Power(b, k - 1)

\* the exact, unrounded sum of two finite float64, as sign, odd magnitude, exponent
ExactSum(a, b) ==
    IF a.m = <<>> /\ b.m = <<>> THEN FZero(0)
    ELSE IF a.m = <<>> THEN b
    ELSE IF b.m = <<>> THEN a
    ELSE LET e0 == MinOf(a.e, b.e)
             A == BShl(a.m, a.e - e0)
             B == BShl(b.m, b.e - e0)
             c == BCmp(A, B)
         IN  IF a.s = b.s THEN MkFin(a.s, BAdd(A, B), e0)
             ELSE IF c = 0 THEN FZero(0)
             ELSE IF c > 0 THEN MkFin(a.s, BSub(A, B), e0)
             ELSE MkFin(b.s, BSub(B, A), e0)

Producing ==
    {"Add", "Sub", "Mul", "Div", "Sqr", "Inv", "AddDF", "SubDF", "MulDF", "DivDF"}

\* C1: every value a producing operation (Add, Sub, Mul, Div, Sqr, Inv, the
\* mixed Double/float64 helpers) returns on normalized operands is
\* normalized whenever it is finite, and on small-integer operands with
\* lo = 0 Add, Sub and Mul return the exact integer result with lo = 0.
C1_ResultsNormalized ==
    /\ (op \in Producing /\ Normalized(x) /\ Normalized(y) /\ Finite(r))
           => FEq(FAdd(r.hi, r.lo), r.hi)
    /\ \A i, j \in (-MaxInt)..MaxInt :
           (x = FromFloat(FromInt(i)) /\ y = FromFloat(FromInt(j)))
               => /\ op = "Add" => Equal(r, FromFloat(FromInt(i + j)))
                  /\ op = "Sub" => Equal(r, FromFloat(FromInt(i - j)))
                  /\ op = "Mul" => Equal(r, FromFloat(FromInt(i * j)))

\* C2: for every Double d with finite hi and normalized lo, d.Sub(d) is
\* Zero: both components of the result are 0.
C2_SubSelfIsZero ==
    (op = "Sub" /\ x = y /\ Normalized(x)) => Equal(r, Zero)

\* C3: for every Double d with finite hi and normalized lo, d.Add(Zero)
\* equals d component for component.
C3_AddZeroIsIdentity ==
    (op = "Add" /\ Equal(y, Zero) /\ Normalized(x)) => Equal(r, x)

C3_Witness ==
    /\ op = "Add" /\ y = Zero
    /\ Normalized(x) /\ ~FIsZero(x.lo)
    /\ Equal(r, x)

\* C4: for every small integer base b and exponent n >= 0,
\* pow2n(FromFloat(b), n).ToFloat64() equals b^n.
C4_PowExact ==
    \A b \in (-MaxInt)..MaxInt :
        (op = "Pow2n" /\ x = FromFloat(FromInt(b)) /\ n >= 0)
            => FEq(ToFloat64(r), FromInt(Power(b, n)))

\* C5: doubleMulDFpow2(x, n) returns (x.hi * 2^n, x.lo * 2^n) for every n it
\* is called with, negative n and n >= 63 included.
C5_ScalesByPow2 ==
    op = "MulDFpow2"
        => Equal(r, D(FMul(x.hi, FPow2(n)), FMul(x.lo, FPow2(n))))

\* C6: for every non-positive Double x, doubleLn2(x) is negative infinity:
\* its hi component and its native conversion are -Inf.
C6_LnNonPositive ==
    (op = "Ln2" /\ doubleLe21(x, F0))
        => r.hi = MathInf(-1) /\ ToFloat64(r) = MathInf(-1)

C8_SqrtOfSquare ==
    \A s \in 1..MaxInt :
        (op = "Sqrt2" /\ x = FromFloat(FromInt(s * s)))
            => FEq(ToFloat64(r), FromInt(s))

\* C9 as claimed: for every representable Double d, d.Mul(d) equals
\* d.Sqr() component for component.
C9_AsClaimed ==
    (op = "Sqr" /\ Finite(x)) => Equal(mul22(x, x), r)

\* C9: for every representable Double d, d.Mul(d) and d.Sqr() are the same
\* pair of float64, and they are Equal when d.hi * d.hi does not overflow.
C9_MulSelfIsSqr ==
    (op = "Sqr" /\ Finite(x))
        => /\ mul22(x, x) = r
           /\ FIsFinite(FMul(x.hi, x.hi)) => Equal(mul22(x, x), r)

C9_Witness ==
    /\ op = "Sqr" /\ Finite(x)
    /\ ~FIsZero(x.lo) /\ Finite(r) /\ ~FIsZero(r.lo)
    /\ Equal(mul22(x, x), r)

\* C10 as claimed: for every Double x and n > 0, pow2n(x, -n) equals
\* doubleInv2(pow2n(x, n)) component for component.
C10_AsClaimed ==
    (op = "Pow2n" /\ n < 0) => Equal(r, doubleInv2(pow2n(x, -n)))

\* C10: for every Double x and n > 0, pow2n(x, -n) is the same pair of
\* float64 as doubleInv2(pow2n(x, n)), and the two are Equal exactly when
\* no component is NaN.
C10_NegPowIsInverse ==
    (op = "Pow2n" /\ n < 0)
        => /\ r = doubleInv2(pow2n(x, -n))
           /\ Equal(r, doubleInv2(pow2n(x, -n))) <=> NoNaN(r)

C10_Witness ==
    /\ op = "Pow2n" /\ n < -1
    /\ Finite(r) /\ ~FIsZero(r.hi)
    /\ Equal(r, doubleInv2(pow2n(x, -n)))

\* C11: over Doubles with no NaN component Cmp is a total order,
\* lexicographic on (hi, lo): Cmp(a, b) = 0 exactly when a.Equal(b),
\* Cmp(a, b) = -Cmp(b, a), Cmp(a, b) = 1 exactly when a.hi > b.hi or
\* a.hi = b.hi and a.lo > b.lo, and Cmp is transitive.
C11_CmpTotalOrder ==
    (op = "Cmp" /\ NoNaN(x) /\ NoNaN(y))
        => /\ cmp \in {-1, 0, 1}
           /\ cmp = 0 <=> Equal(x, y)
           /\ cmp = -Cmp(y, x)
           /\ cmp = 1 <=> (FGt(x.hi, y.hi) \/ (FEq(x.hi, y.hi) /\ FGt(x.lo, y.lo)))
           /\ \A z \in {d \in CmpArgs : NoNaN(d)} :
                  /\ (cmp <= 0 /\ Cmp(y, z) <= 0) => Cmp(x, z) <= 0
                  /\ (cmp < 0 /\ Cmp(y, z) <= 0) => Cmp(x, z) < 0
                  /\ (cmp <= 0 /\ Cmp(y, z) < 0) => Cmp(x, z) < 0

\* two Doubles with the same hi, ordered by lo
C11_Witness ==
    /\ op = "Cmp" /\ NoNaN(x) /\ NoNaN(y)
    /\ FEq(x.hi, y.hi) /\ FGt(x.lo, y.lo)
    /\ cmp = 1 /\ Cmp(y, x) = -1

\* C14: pow2n terminates for every exponent n, and the number of loop
\* iterations it performs (squarings plus multiplications by the base) is
\* at most the bit length of |n|.
C14_IterationsBoundedByBitLength ==
    op = "Pow2n" => steps <= BitLenInt(IF n < 0 THEN -n ELSE n)

(***************************************************************************)
(* Properties of the histogram                                             *)
(***************************************************************************)
Fed == {fed[k] : k \in 1..Len(fed)}
IsMinOfFed(q) == q \in Fed /\ \A k \in 1..Len(fed) : FLe(q, fed[k])
IsMaxOfFed(q) == q \in Fed /\ \A k \in 1..Len(fed) : FLe(fed[k], q)

\* C12: after one or more Update calls since the last Reset, also more
\* than maxSamples of them, Quantile and Quantiles answer the exact minimum
\* of all the values fed for phi <= 0 and the exact maximum for phi >= 1;
\* with no samples, or for phi = NaN, they answer NaN.
C12_ExtremesExact ==
    hop = "asked"
        => \A i \in 1..Len(asked) :
               /\ (fed = <<>> \/ FIsNaN(asked[i])) => FIsNaN(qs[i])
               /\ (fed # <<>> /\ FLe(asked[i], F0)) => IsMinOfFed(qs[i])
               /\ (fed # <<>> /\ FLe(FromInt(1), asked[i])) => IsMaxOfFed(qs[i])

\* more values than the reservoir holds, and the minimum asked for is no
\* longer among the retained samples
C12_Witness ==
    /\ hop = "asked" /\ Len(fed) > maxSamples
    /\ asked = <<F0>> /\ qs = <<fed[1]>>
    /\ \A k \in 1..Len(hist.vals) : hist.vals[k] # qs[1]

\* C13: after Reset the histogram is in the state of a fresh NewHistogram()
\* (min, max, count, retained samples, generator seed), so a histogram that
\* was reset and then fed a sequence of values is in the same state, and
\* answers the same quantiles, as a new histogram fed the same sequence,
\* also when the sequence is longer than maxSamples.
C13_RepeatableAcrossReset ==
    /\ (hop = "fill" /\ fed = <<>>) => hist = NewHistogram
    /\ [hist EXCEPT !.tmp = <<>>] = ref
    /\ hop = "asked"
           => qs = quantiles(FillTmp(ref), <<>>, asked)

\* the histogram was reset after a run with random replacement, and was fed
\* again more values than the reservoir holds, some of them replaced
C13_Witness ==
    /\ reused /\ hop = "asked" /\ Len(fed) > maxSamples
    /\ asked = <<Half>>
    /\ hist.rng # RngSeed(1)
    /\ \E k \in 1..Len(hist.vals) : hist.vals[k] # fed[k]
    /\ qs = quantiles(FillTmp(ref), <<>>, asked)

\* C15: in every histogram reachable through NewHistogram, Update, Reset
\* and MergeHistograms the number of retained samples never exceeds
\* maxSamples and equals min(count, maxSamples), count being the number of
\* values absorbed since the last Reset.
C15_ReservoirBounded ==
    /\ hist.count = Len(fed)
    /\ \A g \in {hist, merged} :
           /\ Len(g.vals) <= maxSamples
           /\ Len(g.vals) = MinOf(g.count, maxSamples)

====
